---- MODULE Spec2Model ----
(***************************************************************************)
(* A model of app.py, the e-commerce KPI dashboard: the module-level load  *)
(* and cleaning of the CSV ledger (with its example-data fallback), the    *)
(* RFM scoring and segmentation, and the update_charts callback that       *)
(* filters the ledger and aggregates it.                                   *)
(*                                                                         *)
(* Representation.  A pandas cell is NULL (NaN / NaT / None) or <<v>>.     *)
(* Timestamps are day numbers of 2023 (31 is 2023-01-31, 32 is            *)
(* 2023-02-01); InvoiceNo, CustomerID and Description are numbers that     *)
(* stand for the labels of the file, ordered as pandas orders the labels.  *)
(* Revenue is an integer amount, so quantiles in quarters are exact.       *)
(***************************************************************************)
EXTENDS Integers, Sequences, FiniteSets, TLC

VARIABLES
    source,         \* the CSV file: [readable, columns, rows]
    phase,          \* position of the module-level script
    df,             \* the global DataFrame (the ledger), a sequence of rows
    rfm,            \* the global rfm table: CustomerID -> record
    usedExample,    \* TRUE once the except branch built the example ledger
    loaded,         \* the ledger as it stood when the script finished
    lastFilter,     \* the State values of the last update_charts call
    figures,        \* what the last update_charts call aggregated
    probe           \* an RFM_Score put through segment_map on its own

vars == <<source, phase, df, rfm, usedExample, loaded, lastFilter, figures, probe>>

-----------------------------------------------------------------------------
(* Bounds of the model *)

\* rows of the example ledger (1000 in the program)
ExampleRows == 2
\* customers of the scoring populations
MaxCustomers == 4
\* products of the ranking ledgers (one more than the program keeps)
MaxProducts == 11
\* days after 2023-01-31 a source row may be dated
DaySpan == 2

(* Program constants *)
Quartiles == 4
TopProducts == 10
TopCountries == 5

-----------------------------------------------------------------------------
(* Cells *)

NULL == <<>>

Some(v) == <<v>>

IsNull(c) == c = NULL

NotNull(c) == c # NULL

Val(c) == c[1]

RECURSIVE SumOver(_, _)
SumOver(S, f) ==
    IF S = {} THEN 0
    ELSE LET x == CHOOSE y \in S : TRUE IN f[x] + SumOver(S \ {x}, f)

RECURSIVE SortedSeq(_)
\* the numbers of S in ascending order
SortedSeq(S) ==
    IF S = {} THEN <<>>
    ELSE LET m == CHOOSE y \in S : \A z \in S : y <= z
         IN <<m>> \o SortedSeq(S \ {m})

Indices(s) == 1..Len(s)

-----------------------------------------------------------------------------
(* Text of numbers and dates, and its parsing *)

Pad2(n) == IF n < 10 THEN "0" \o ToString(n) ELSE ToString(n)

\* ISO text of day d of 2023 (January and February)
DateText(d) == IF d <= 31 THEN "2023-01-" \o Pad2(d) ELSE "2023-02-" \o Pad2(d - 31)

DateTexts == [d \in 1..59 |-> DateText(d)]

NumTexts == [n \in -1..9 |-> ToString(n)]

\* pd.to_numeric(column, errors='coerce') on one cell
to_numeric(c) ==
    IF IsNull(c) THEN NULL
    ELSE IF \E n \in DOMAIN NumTexts : NumTexts[n] = Val(c)
         THEN Some(CHOOSE n \in DOMAIN NumTexts : NumTexts[n] = Val(c))
         ELSE NULL

\* pd.to_datetime(column, errors='coerce') on one cell
to_datetime(c) ==
    IF IsNull(c) THEN NULL
    ELSE IF \E d \in DOMAIN DateTexts : DateTexts[d] = Val(c)
         THEN Some(CHOOSE d \in DOMAIN DateTexts : DateTexts[d] = Val(c))
         ELSE NULL

\* Series.dt.to_period('M') on one non-null timestamp
to_period_M(d) == IF d <= 31 THEN 1 ELSE 2

-----------------------------------------------------------------------------
(* The source file *)

AllColumns == {"InvoiceNo", "StockCode", "Description", "Quantity", "InvoiceDate",
               "UnitPrice", "CustomerID", "Country", "Category", "Rating"}

\* the columns the try block indexes by name
RequiredColumns == {"Quantity", "UnitPrice", "InvoiceDate", "InvoiceNo", "CustomerID"}

RawRow(inv, desc, qty, date, price, cust, country, cat) ==
    [InvoiceNo |-> inv, Description |-> desc, Quantity |-> qty, InvoiceDate |-> date,
     UnitPrice |-> price, CustomerID |-> cust, Country |-> country, Category |-> cat]

File(rows) == [readable |-> TRUE, columns |-> AllColumns, rows |-> rows]

Unreadable == [readable |-> FALSE, columns |-> {}, rows |-> <<>>]

-----------------------------------------------------------------------------
(* LOAD AND PREPARE DATA: the try block *)

categories == {"Electronics", "Fashion", "Books", "Home", "Toys"}

\* steps 1 and 2: type conversion and Revenue, on one row
Coerce(r, cat) ==
    LET q == to_numeric(r.Quantity)
        p == to_numeric(r.UnitPrice)
    IN [InvoiceNo |-> r.InvoiceNo, Description |-> r.Description,
        Quantity |-> q, InvoiceDate |-> to_datetime(r.InvoiceDate),
        UnitPrice |-> p, CustomerID |-> r.CustomerID,
        Country |-> r.Country, Category |-> cat,
        Revenue |-> IF NotNull(q) /\ NotNull(p) THEN Some(Val(q) * Val(p)) ELSE NULL]

\* the subset of df.dropna(subset=[...])
DropnaSubset(r) == NotNull(r.InvoiceNo) /\ NotNull(r.CustomerID) /\ NotNull(r.Revenue)

\* step 3: dropna, Quantity > 0, UnitPrice > 0 (a comparison with NaN is False)
Keep(r) ==
    /\ DropnaSubset(r)
    /\ NotNull(r.Quantity) /\ Val(r.Quantity) > 0
    /\ NotNull(r.UnitPrice) /\ Val(r.UnitPrice) > 0

\* the try block's result: cats[i] is row i's Category (the file's, or the drawn one)
Prepared(rows, cats) ==
    SelectSeq([i \in Indices(rows) |-> Coerce(rows[i], cats[i])], Keep)

\* pd.read_csv raises, or a column the block names is missing
Raises(src) == ~src.readable \/ ~(RequiredColumns \subseteq src.columns)

TryLoad ==
    /\ phase = "start"
    /\ IF Raises(source)
       THEN /\ phase' = "except"
            /\ df' = <<>>
       ELSE /\ IF "Category" \in source.columns
               THEN df' = Prepared(source.rows,
                                   [i \in Indices(source.rows) |-> source.rows[i].Category])
               ELSE \E cats \in [Indices(source.rows) -> categories] :
                        df' = Prepared(source.rows, cats)
            /\ phase' = "prepared"
    /\ UNCHANGED <<source, rfm, usedExample, loaded, lastFilter, figures, probe>>

\* the draws of np.random for one example row that the model follows: any of
\* two quantities and two customers; country and category alternate, the
\* price is 10
ExampleDraws == [Quantity : {1, 2}, CustomerID : {1, 2}]

\* row i (from 0) of the example DataFrame, Revenue included
ExampleRow(i, w) ==
    [InvoiceNo |-> Some(i), Description |-> Some(i % 50),
     Quantity |-> Some(w.Quantity), InvoiceDate |-> Some(1 + i),
     UnitPrice |-> Some(10), CustomerID |-> Some(w.CustomerID),
     Country |-> IF i % 2 = 0 THEN "USA" ELSE "UK",
     Category |-> IF i % 2 = 0 THEN "Books" ELSE "Toys",
     Revenue |-> Some(w.Quantity * 10)]

\* the except branch, were it to let the error out instead
ExceptSurfaces ==
    /\ phase = "except"
    /\ phase' = "crashed"
    /\ UNCHANGED <<source, df, rfm, usedExample, loaded, lastFilter, figures, probe>>

ExceptFallback ==
    /\ phase = "except"
    /\ \E w \in [1..ExampleRows -> ExampleDraws] :
           df' = [i \in 1..ExampleRows |-> ExampleRow(i - 1, w[i])]
    /\ usedExample' = TRUE
    /\ phase' = "prepared"
    /\ UNCHANGED <<source, rfm, loaded, lastFilter, figures, probe>>

-----------------------------------------------------------------------------
(* CALCUL RFM *)

CustomerIDs(d) == {Val(d[i].CustomerID) : i \in Indices(d)}

RowsOf(d, c) == {i \in Indices(d) : d[i].CustomerID = Some(c)}

\* Series.max() of the InvoiceDate of the rows I: NaT is skipped, NaT if none is left
MaxDate(d, I) ==
    LET ds == {Val(d[i].InvoiceDate) : i \in {j \in I : NotNull(d[j].InvoiceDate)}}
    IN IF ds = {} THEN NULL ELSE Some(CHOOSE x \in ds : \A y \in ds : y <= x)

current_date(d) == MaxDate(d, Indices(d))

\* (current_date - x.max()).days ; NaT.days is NaN
Recency(d, c) ==
    LET last == MaxDate(d, RowsOf(d, c))
    IN IF IsNull(last) \/ IsNull(current_date(d)) THEN NULL
       ELSE Some(Val(current_date(d)) - Val(last))

\* 'nunique' of InvoiceNo
Frequency(d, c) == Cardinality({d[i].InvoiceNo : i \in RowsOf(d, c)} \ {NULL})

\* 'sum' of Revenue
Monetary(d, c) == SumOver(RowsOf(d, c), [i \in RowsOf(d, c) |-> Val(d[i].Revenue)])

R_col(d) == [c \in CustomerIDs(d) |-> Recency(d, c)]

F_col(d) == [c \in CustomerIDs(d) |-> Frequency(d, c)]

M_col(d) == [c \in CustomerIDs(d) |-> Some(Monetary(d, c))]

\* Series.rank(method='first'): ties ranked in index order (the sorted CustomerID)
rank_first(f) ==
    [c \in DOMAIN f |->
        Some(1 + Cardinality({e \in DOMAIN f : f[e] < f[c]})
               + Cardinality({e \in DOMAIN f : f[e] = f[c] /\ e < c}))]

\* the non-null values of column x in ascending order
SortedValues(x) ==
    LET S == {c \in DOMAIN x : NotNull(x[c])}
        pos(c) == 1 + Cardinality({e \in S : Val(x[e]) < Val(x[c])})
                    + Cardinality({e \in S : Val(x[e]) = Val(x[c]) /\ e < c})
    IN [i \in 1..Cardinality(S) |-> Val(x[CHOOSE c \in S : pos(c) = i])]

\* Series.quantile(k / q) of the sorted values xs, times q (linear interpolation)
QuantileTimesQ(xs, k, q) ==
    LET at == k * (Len(xs) - 1)
        lo == at \div q
        fr == at % q
    IN IF fr = 0 THEN q * xs[lo + 1]
       ELSE (q - fr) * xs[lo + 1] + fr * xs[lo + 2]

\* the bin edges qcut keeps under duplicates='drop' (times q); quantiles of
\* no value at all are q + 1 NaN, which unique() makes one edge
UniqueBins(xs, q) ==
    IF Len(xs) = 0 THEN {}
    ELSE {QuantileTimesQ(xs, k, q) : k \in 0..q}

NumBins(xs, q) == IF Len(xs) = 0 THEN 1 ELSE Cardinality(UniqueBins(xs, q))

\* ValueError: Bin labels must be one fewer than the number of bin edges
qcut_raises(x, q, labels) == Len(labels) # NumBins(SortedValues(x), q) - 1

\* the label of one cell: bins are right-closed, the lowest edge included
qcut_label(c, bins, q, labels) ==
    IF IsNull(c) THEN NULL
    ELSE LET below == Cardinality({e \in bins : e < q * Val(c)})
             id == IF \A e \in bins : q * Val(c) <= e THEN 1 ELSE below
         IN IF id = 0 \/ id = Cardinality(bins) THEN NULL ELSE Some(labels[id])

\* pd.qcut(x, q, labels=labels, duplicates='drop'), when it does not raise
qcut(x, q, labels) ==
    LET bins == UniqueBins(SortedValues(x), q)
    IN [c \in DOMAIN x |-> qcut_label(x[c], bins, q, labels)]

\* the recency labels, were they given in the order of the other two
R_labels_ascending == <<1, 2, 3, 4>>

R_labels == <<4, 3, 2, 1>>

F_labels == <<1, 2, 3, 4>>

M_labels == <<1, 2, 3, 4>>

\* Categorical.astype(str) on one score
astype_str(c) == IF IsNull(c) THEN "nan" ELSE ToString(Val(c))

RFM_Score(r, f, m) == astype_str(r) \o astype_str(f) \o astype_str(m)

\* the segment table without its last entry
segment_map_short ==
    ("444" :> "Champions") @@ ("443" :> "Champions") @@ ("434" :> "Champions") @@
    ("433" :> "Champions") @@ ("344" :> "Loyal Customers") @@
    ("343" :> "Loyal Customers") @@ ("334" :> "Loyal Customers") @@
    ("333" :> "Loyal Customers") @@ ("244" :> "Potential") @@ ("144" :> "New") @@
    ("111" :> "Lost") @@ ("112" :> "Inactive") @@ ("221" :> "At Risk")

segment_map ==
    ("444" :> "Champions") @@ ("443" :> "Champions") @@ ("434" :> "Champions") @@
    ("433" :> "Champions") @@ ("344" :> "Loyal Customers") @@
    ("343" :> "Loyal Customers") @@ ("334" :> "Loyal Customers") @@
    ("333" :> "Loyal Customers") @@ ("244" :> "Potential") @@ ("144" :> "New") @@
    ("111" :> "Lost") @@ ("112" :> "Inactive") @@ ("221" :> "At Risk") @@
    ("212" :> "At Risk")

\* rfm['RFM_Score'].map(segment_map).fillna('Others') on one code
Segment(code) == IF code \in DOMAIN segment_map THEN segment_map[code] ELSE "Others"

\* one of the three qcut calls raises
ScoringRaises(d) ==
    \/ qcut_raises(R_col(d), Quartiles, R_labels)
    \/ qcut_raises(rank_first(F_col(d)), Quartiles, F_labels)
    \/ qcut_raises(M_col(d), Quartiles, M_labels)

RfmTable(d) ==
    LET R == R_col(d)
        F == F_col(d)
        M == M_col(d)
        rs == qcut(R, Quartiles, R_labels)
        fs == qcut(rank_first(F), Quartiles, F_labels)
        ms == qcut(M, Quartiles, M_labels)
    IN [c \in CustomerIDs(d) |->
          [R |-> R[c], F |-> F[c], M |-> Val(M[c]),
           R_Score |-> rs[c], F_Score |-> fs[c], M_Score |-> ms[c],
           RFM_Score |-> RFM_Score(rs[c], fs[c], ms[c]),
           Segment |-> Segment(RFM_Score(rs[c], fs[c], ms[c]))]]

\* df.merge(rfm[['Segment']], left_on='CustomerID', right_index=True, how='left')
Merge(d, t) ==
    [i \in Indices(d) |->
        [InvoiceNo |-> d[i].InvoiceNo, Description |-> d[i].Description,
         Quantity |-> d[i].Quantity, InvoiceDate |-> d[i].InvoiceDate,
         UnitPrice |-> d[i].UnitPrice, CustomerID |-> d[i].CustomerID,
         Country |-> d[i].Country, Category |-> d[i].Category,
         Revenue |-> d[i].Revenue, Segment |-> t[Val(d[i].CustomerID)].Segment]]

ComputeRFM ==
    /\ phase = "prepared"
    /\ IF ScoringRaises(df)
       THEN /\ phase' = "crashed"
            /\ UNCHANGED <<df, rfm, loaded>>
       ELSE /\ rfm' = RfmTable(df)
            /\ df' = Merge(df, RfmTable(df))
            /\ loaded' = Merge(df, RfmTable(df))
            /\ phase' = "ready"
    /\ UNCHANGED <<source, usedExample, lastFilter, figures, probe>>

-----------------------------------------------------------------------------
(* CALLBACKS: update_charts *)

\* Python truth of a State value that is None or a string
TruthyText(c) == NotNull(c) /\ Val(c) # ""

\* Python truth of a State value that is None or a list
TruthyList(c) == NotNull(c) /\ Val(c) # {}

\* a timestamp column compared with a date string: NaT compares False
OnOrAfter(c, text) == NotNull(c) /\ NotNull(to_datetime(text)) /\ Val(c) >= Val(to_datetime(text))

OnOrBefore(c, text) == NotNull(c) /\ NotNull(to_datetime(text)) /\ Val(c) <= Val(to_datetime(text))

\* the row masks of the three if statements
DateMask(f, r) ==
    (TruthyText(f.start_date) /\ TruthyText(f.end_date))
        => (OnOrAfter(r.InvoiceDate, f.start_date) /\ OnOrBefore(r.InvoiceDate, f.end_date))

CategoryMask(f, r) == TruthyList(f.categories) => r.Category \in Val(f.categories)

CountryMask(f, r) == TruthyList(f.countries) => r.Country \in Val(f.countries)

\* filtered_df
ApplyFilter(d, f) ==
    LET keep(r) == DateMask(f, r) /\ CategoryMask(f, r) /\ CountryMask(f, r)
    IN SelectSeq(d, keep)

\* Series.nlargest(n) of a series <<key, value>>, ... given in index order:
\* descending by value, equal values in index order, the first n
nlargest(s, n) ==
    LET pos(i) == 1 + Cardinality({j \in Indices(s) : s[j][2] > s[i][2]})
                    + Cardinality({j \in Indices(s) : s[j][2] = s[i][2] /\ j < i})
        m == IF Len(s) < n THEN Len(s) ELSE n
    IN [p \in 1..m |-> s[CHOOSE i \in Indices(s) : pos(i) = p]]

RevenueOf(d, I) == SumOver(I, [i \in I |-> Val(d[i].Revenue)])

\* groupby(InvoiceDate.dt.to_period('M'))['Revenue'].sum(): NaT keys are dropped
monthly(d) ==
    LET dated == {i \in Indices(d) : NotNull(d[i].InvoiceDate)}
        month(i) == to_period_M(Val(d[i].InvoiceDate))
        keys == SortedSeq({month(i) : i \in dated})
    IN [k \in Indices(keys) |->
          <<keys[k], RevenueOf(d, {i \in dated : month(i) = keys[k]})>>]

\* filtered_df['Segment'].value_counts(), as a table
segments(d) ==
    [s \in {d[i].Segment : i \in Indices(d)} |->
        Cardinality({i \in Indices(d) : d[i].Segment = s})]

\* groupby('Description')['Revenue'].sum(): NaN keys are dropped, keys sorted
by_description(d) ==
    LET named == {i \in Indices(d) : NotNull(d[i].Description)}
        keys == SortedSeq({Val(d[i].Description) : i \in named})
    IN [k \in Indices(keys) |->
          <<keys[k], RevenueOf(d, {i \in named : d[i].Description = Some(keys[k])})>>]

\* the first products of the grouped sums, were they not ranked
top_prod_unranked(d) ==
    SubSeq(by_description(d), 1,
           IF Len(by_description(d)) < TopProducts THEN Len(by_description(d)) ELSE TopProducts)

top_prod(d) == nlargest(by_description(d), TopProducts)

\* the country names of the model, as groupby sorts them
CountryOrder == <<"France", "UK", "USA">>

by_country(d) ==
    LET present(c) == \E i \in Indices(d) : d[i].Country = c
        keys == SelectSeq(CountryOrder, present)
    IN [k \in Indices(keys) |->
          <<keys[k], RevenueOf(d, {i \in Indices(d) : d[i].Country = keys[k]})>>]

countries_data(d) == nlargest(by_country(d), TopCountries)

category_data(d) ==
    [c \in {d[i].Category : i \in Indices(d)} |->
        RevenueOf(d, {i \in Indices(d) : d[i].Category = c})]

\* the five tables the figures are drawn from
Aggregate(d) ==
    [monthly |-> monthly(d), segments |-> segments(d), top_prod |-> top_prod(d),
     countries_data |-> countries_data(d), category_data |-> category_data(d)]

\* update_charts, were it to filter the global df itself and not a copy
update_charts_in_place(f) ==
    /\ phase = "ready"
    /\ lastFilter' = Some(f)
    /\ df' = ApplyFilter(df, f)
    /\ figures' = Some([filtered_df |-> ApplyFilter(df, f),
                        tables |-> Aggregate(ApplyFilter(df, f))])
    /\ UNCHANGED <<source, phase, rfm, usedExample, loaded, probe>>

update_charts(f) ==
    /\ phase = "ready"
    /\ lastFilter' = Some(f)
    /\ figures' = Some([filtered_df |-> ApplyFilter(df, f),
                        tables |-> Aggregate(ApplyFilter(df, f))])
    /\ UNCHANGED <<source, phase, df, rfm, usedExample, loaded, probe>>

\* the State values the model calls update_charts with
StartDates == {NULL, Some(DateText(32)), Some(DateText(33))}

EndDates == {NULL, Some(DateText(32))}

FilterSpecs ==
    [start_date : StartDates, end_date : EndDates,
     categories : {NULL, Some({}), Some({"Books"})},
     countries : {NULL, Some({"UK"})}]

-----------------------------------------------------------------------------
(* The segment table on its own *)

Scores == {NULL} \cup {Some(n) : n \in 1..Quartiles}

Classify ==
    /\ phase = "table"
    /\ ~probe.done
    /\ probe' = [probe EXCEPT
                    !.code = RFM_Score(probe.r, probe.f, probe.m),
                    !.segment = Segment(RFM_Score(probe.r, probe.f, probe.m)),
                    !.done = TRUE]
    /\ UNCHANGED <<source, phase, df, rfm, usedExample, loaded, lastFilter, figures>>

NoProbe == [r |-> NULL, f |-> NULL, m |-> NULL, code |-> "", segment |-> "", done |-> FALSE]

-----------------------------------------------------------------------------
(* Source files the specifications start from *)

Insert(s, p, r) == SubSeq(s, 1, p) \o <<r>> \o SubSeq(s, p + 1, Len(s))

\* two clean rows of two customers
BaseRows ==
    << RawRow(Some(536365), Some(1), Some("2"), Some(DateText(31)), Some("3"),
              Some(17850), "UK", "Books"),
       RawRow(Some(536366), Some(2), Some("1"), Some(DateText(32)), Some("3"),
              Some(13047), "France", "Toys") >>

\* one row with every mix of missing, unparseable, non-positive and good cells
DirtyRows ==
    {RawRow(inv, Some(3), qty, date, price, cust, "UK", "Books") :
        inv \in {NULL, Some(536367)},
        qty \in {Some("abc"), Some("-1"), Some("0"), Some("2")},
        date \in {Some("n/a"), Some(DateText(31)), Some(DateText(31 + DaySpan))},
        price \in {Some("free"), Some("0"), Some("4")},
        cust \in {NULL, Some(17850), Some(12583)}}

CleanSources ==
    {File(Insert(BaseRows, p, r)) : p \in 0..Len(BaseRows), r \in DirtyRows}
    \cup {File(<<r>>) : r \in DirtyRows}
    \cup {File(<<>>), File(BaseRows), Unreadable,
          [File(BaseRows) EXCEPT !.columns = AllColumns \ {"Category"}],
          [File(BaseRows) EXCEPT !.columns = AllColumns \ {"Quantity"}]}

\* date texts in the order of their index: 0 is unparseable, then the Days
DateChoice(k) == IF k = 0 THEN Some("n/a") ELSE Some(DateText(30 + k))

\* n quantities in ascending order, in descending order, or cut and swapped
Arrange(qs, kind) ==
    LET n == Len(qs)
    IN CASE kind = "asc" -> qs
         [] kind = "desc" -> [i \in 1..n |-> qs[n + 1 - i]]
         [] kind = "cut" -> SubSeq(qs, n \div 2 + 1, n) \o SubSeq(qs, 1, n \div 2)

Ascending(S, n) == {q \in [1..n -> S] : \A i \in 1..(n - 1) : q[i] <= q[i + 1]}

\* populations of n customers, one invoice each, dated in index order (an
\* unparseable date or one of three days), with quantities 1 to 3 in one of
\* three arrangements; extra adds a second invoice of customer 1
Population(n, dates, qtys, extra) ==
    LET one == [c \in 1..n |->
                   RawRow(Some(100 + c), Some(1), Some(ToString(qtys[c])),
                          DateChoice(dates[c]), Some("1"), Some(c), "UK", "Books")]
    IN IF extra
       THEN one \o <<RawRow(Some(100), Some(1), Some("1"), Some(DateText(31)),
                            Some("1"), Some(1), "UK", "Books")>>
       ELSE one

Populations(n) ==
    {File(Population(n, dates, Arrange(qtys, kind), extra)) :
        dates \in Ascending(0..3, n),
        qtys \in Ascending(1..3, n),
        kind \in {"asc", "desc", "cut"},
        extra \in BOOLEAN}

RfmSources ==
    UNION {Populations(n) : n \in 1..MaxCustomers} \cup {File(<<>>), Unreadable}

\* ledgers of two customers: the row of customer 1 varies in quantity, date,
\* country and category, the row of customer 2 in date; an optional third
\* row is customer 1's again (product 1 again)
QuerySources ==
    {File(<<RawRow(Some(201), Some(1), q1, d1, Some("1"), Some(1), n1, c1),
            RawRow(Some(202), Some(2), Some("3"), d2, Some("1"), Some(2), "France", "Toys")>>
          \o more) :
        q1 \in {Some("1"), Some("2")},
        d1 \in {DateChoice(k) : k \in 0..(DaySpan + 1)},
        d2 \in {DateChoice(k) : k \in 0..(DaySpan + 1)},
        n1 \in {"UK", "France"},
        c1 \in {"Books", "Toys"},
        more \in {<<>>} \cup
                 {<<RawRow(Some(203), Some(1), Some("1"), d3, Some("1"), Some(1),
                           "UK", "Books")>> : d3 \in {Some("n/a"), Some(DateText(33))}}}
    \cup {File(<<>>),
          File(<<RawRow(Some(201), Some(1), Some("0"), Some(DateText(31)), Some("1"),
                        Some(1), "UK", "Books")>>),
          Unreadable,
          [File(BaseRows) EXCEPT !.columns = AllColumns \ {"UnitPrice"}]}

\* ledgers of n products, one row each, of two customers; twice adds a second
\* row of product 1
Catalogue(n, qs, twice) ==
    LET one == [i \in 1..n |->
                   RawRow(Some(300 + i), Some(i), Some(ToString(qs[i])),
                          Some(DateText(31 + (i % 2))), Some("1"), Some(1 + (i % 2)),
                          "UK", IF i % 3 = 0 THEN "Toys" ELSE "Books")]
    IN IF twice
       THEN one \o <<RawRow(Some(300), Some(1), Some("2"), Some(DateText(31)),
                            Some("1"), Some(1), "UK", "Books")>>
       ELSE one

Catalogues(n) ==
    {File(Catalogue(n, Arrange(qs, kind), twice)) :
        qs \in Ascending(1..3, n), kind \in {"asc", "desc", "cut"}, twice \in BOOLEAN}

TopSources == Catalogues(MaxProducts - 1) \cup Catalogues(MaxProducts) \cup {Unreadable}

-----------------------------------------------------------------------------
(* Specifications *)

Start(sources) ==
    /\ source \in sources
    /\ phase = "start"
    /\ df = <<>>
    /\ rfm = <<>>
    /\ usedExample = FALSE
    /\ loaded = <<>>
    /\ lastFilter = NULL
    /\ figures = NULL
    /\ probe = NoProbe

\* the module-level script
Script == TryLoad \/ ExceptFallback \/ ComputeRFM

Next == TryLoad \/ ExceptFallback \/ ComputeRFM \/ \E f \in FilterSpecs : update_charts(f)

Init == Start(QuerySources)

\* the script and the callback over the two-customer ledgers
Spec == Init /\ [][Next]_vars

InitClean == Start(CleanSources)

\* the script over files with dirty rows
SpecClean == InitClean /\ [][Script]_vars

InitRfm == Start(RfmSources)

\* the script over the scoring populations
SpecRfm == InitRfm /\ [][Script]_vars

InitTop == Start(TopSources)

\* no filter, one category, one country and category, a date range, inverted dates
TopFilterSpecs ==
    {f \in FilterSpecs :
        \/ f.start_date = NULL /\ f.end_date = NULL /\ f.countries = NULL
              /\ f.categories # Some({})
        \/ f.start_date # NULL /\ f.end_date # NULL /\ f.categories = NULL
              /\ f.countries = NULL
        \/ f.start_date = NULL /\ f.end_date = NULL /\ f.countries # NULL
              /\ f.categories = Some({"Books"})}

NextTop == TryLoad \/ ExceptFallback \/ ComputeRFM \/ \E f \in TopFilterSpecs : update_charts(f)

\* the script and the callback over the product catalogues
SpecTop == InitTop /\ [][NextTop]_vars

InitTable ==
    /\ source = Unreadable
    /\ phase = "table"
    /\ df = <<>>
    /\ rfm = <<>>
    /\ usedExample = FALSE
    /\ loaded = <<>>
    /\ lastFilter = NULL
    /\ figures = NULL
    /\ probe \in [r : Scores, f : Scores, m : Scores, code : {""}, segment : {""},
                  done : {FALSE}]

\* every RFM_Score put through the segment table
SpecTable == InitTable /\ [][Classify]_vars

-----------------------------------------------------------------------------
(* Properties *)

Loaded == phase \in {"prepared", "ready", "crashed"}

PositiveCell(c) == NotNull(c) /\ Val(c) > 0

\* C1: once the load step has run, every row of the ledger has a non-null
\* InvoiceNo and CustomerID, Quantity > 0, UnitPrice > 0,
\* Revenue = Quantity * UnitPrice > 0 and a non-null InvoiceDate.
C1_RetainedRowsAreValid ==
    Loaded =>
        \A i \in Indices(df) :
            /\ NotNull(df[i].InvoiceNo)
            /\ NotNull(df[i].CustomerID)
            /\ PositiveCell(df[i].Quantity)
            /\ PositiveCell(df[i].UnitPrice)
            /\ PositiveCell(df[i].Revenue)
            /\ Val(df[i].Revenue) = Val(df[i].Quantity) * Val(df[i].UnitPrice)
            /\ NotNull(df[i].InvoiceDate)

\* the file's own Category column, where it has one
FileCategories == [i \in Indices(source.rows) |-> source.rows[i].Category]

\* the columns of a ledger row before the merge
Unmerged(r) ==
    [InvoiceNo |-> r.InvoiceNo, Description |-> r.Description, Quantity |-> r.Quantity,
     InvoiceDate |-> r.InvoiceDate, UnitPrice |-> r.UnitPrice, CustomerID |-> r.CustomerID,
     Country |-> r.Country, Category |-> r.Category, Revenue |-> r.Revenue]

TableSegment(r, f, m) ==
    CASE r = 4 /\ f \in {3, 4} /\ m \in {3, 4} -> "Champions"
      [] r = 3 /\ f \in {3, 4} /\ m \in {3, 4} -> "Loyal Customers"
      [] r = 2 /\ f = 4 /\ m = 4 -> "Potential"
      [] r = 1 /\ f = 4 /\ m = 4 -> "New"
      [] r = 1 /\ f = 1 /\ m = 1 -> "Lost"
      [] r = 1 /\ f = 1 /\ m = 2 -> "Inactive"
      [] r = 2 /\ f = 2 /\ m = 1 -> "At Risk"
      [] r = 2 /\ f = 1 /\ m = 2 -> "At Risk"
      [] OTHER -> "Others"

\* C3: every code of three scores 1..4 gets exactly the segment of the table,
\* and "Others" when the table has no entry for it.
C3_ClassifierIsTotal ==
    (probe.done /\ NotNull(probe.r) /\ NotNull(probe.f) /\ NotNull(probe.m)) =>
        /\ probe.code = ToString(Val(probe.r)) \o ToString(Val(probe.f))
                            \o ToString(Val(probe.m))
        /\ probe.segment = TableSegment(Val(probe.r), Val(probe.f), Val(probe.m))

\* a listed code was classified
C3_Witness == probe.done /\ probe.code = "212" /\ probe.segment = "At Risk"

ScoreInRange(c) == NotNull(c) /\ Val(c) \in 1..Quartiles

\* C4: in a computed RFM table every customer's three scores are in 1..4 and
\* RFM_Score is the three digits in the order R, F, M.
C4_ScoresAndCode ==
    phase = "ready" =>
        \A c \in DOMAIN rfm :
            /\ ScoreInRange(rfm[c].R_Score)
            /\ ScoreInRange(rfm[c].F_Score)
            /\ ScoreInRange(rfm[c].M_Score)
            /\ Len(rfm[c].RFM_Score) = 3
            /\ rfm[c].RFM_Score = ToString(Val(rfm[c].R_Score))
                                     \o ToString(Val(rfm[c].F_Score))
                                     \o ToString(Val(rfm[c].M_Score))

\* the restrictions of a FilterSpec, each on its own
DateFromHolds(f, r) ==
    TruthyText(f.start_date) => OnOrAfter(r.InvoiceDate, f.start_date)

DateToHolds(f, r) ==
    TruthyText(f.end_date) => OnOrBefore(r.InvoiceDate, f.end_date)

Satisfies(f, r) ==
    /\ DateFromHolds(f, r)
    /\ DateToHolds(f, r)
    /\ TruthyList(f.categories) => r.Category \in Val(f.categories)
    /\ TruthyList(f.countries) => r.Country \in Val(f.countries)

AllDated(d) == \A i \in Indices(d) : NotNull(d[i].InvoiceDate)

\* C5: the rows update_charts aggregates are exactly the ledger rows that
\* satisfy every given restriction, each bound and each set on its own
\* (checked on ledgers in which every row has a date).
C5_RestrictionsAreIndependent ==
    (figures # NULL /\ AllDated(df)) =>
        LET f == Val(lastFilter)
            sat(r) == Satisfies(f, r)
        IN Val(figures).filtered_df = SelectSeq(df, sat)

\* C6: queries leave the ledger and the RFM table as the load left them, a
\* row's segment is the one scored over the whole ledger, and what a query
\* returns is determined by the loaded ledger and its FilterSpec alone.
C6_QueriesChangeNothing ==
    phase = "ready" =>
        /\ df = loaded
        /\ rfm = RfmTable(loaded)
        /\ \A i \in Indices(df) : df[i].Segment = RfmTable(loaded)[Val(df[i].CustomerID)].Segment
        /\ figures # NULL =>
               /\ Val(figures).filtered_df = ApplyFilter(loaded, Val(lastFilter))
               /\ Val(figures).tables = Aggregate(ApplyFilter(loaded, Val(lastFilter)))
               /\ \A i \in Indices(Val(figures).filtered_df) :
                      Val(figures).filtered_df[i].Segment =
                          rfm[Val(Val(figures).filtered_df[i].CustomerID)].Segment

\* a query that kept some rows of the ledger and dropped others
C6_Witness ==
    /\ phase = "ready"
    /\ figures # NULL
    /\ Len(Val(figures).filtered_df) > 0
    /\ Len(Val(figures).filtered_df) < Len(df)

MonthsOf(d) == {to_period_M(Val(d[i].InvoiceDate)) : i \in {j \in Indices(d) : NotNull(d[j].InvoiceDate)}}

\* C7: when the months of the ledger's rows are one month and the filter
\* selects a row, the monthly series is one bucket holding the revenue of
\* all filtered rows.
C7_OneMonthOneBucket ==
    (figures # NULL /\ Cardinality(MonthsOf(df)) = 1 /\ Len(Val(figures).filtered_df) >= 1) =>
        /\ Len(Val(figures).tables.monthly) = 1
        /\ Val(figures).tables.monthly[1][2] =
               RevenueOf(Val(figures).filtered_df, Indices(Val(figures).filtered_df))

\* the descriptions of d and the revenue of one of them
Descriptions(d) == {Val(d[i].Description) : i \in {j \in Indices(d) : NotNull(d[j].Description)}}

DescriptionRevenue(d, k) == RevenueOf(d, {i \in Indices(d) : d[i].Description = Some(k)})

\* at most 10 entries, each a distinct description of the filtered rows with
\* its summed revenue, none left out that sums to more than one kept
TopIsTheLargest(top, d) ==
    /\ Len(top) <= 10
    /\ \A i \in Indices(top) :
           /\ top[i][1] \in Descriptions(d)
           /\ top[i][2] = DescriptionRevenue(d, top[i][1])
    /\ \A i, j \in Indices(top) : i # j => top[i][1] # top[j][1]
    /\ Len(top) < 10 => {top[i][1] : i \in Indices(top)} = Descriptions(d)
    /\ \A k \in Descriptions(d) \ {top[i][1] : i \in Indices(top)} :
           \A i \in Indices(top) : DescriptionRevenue(d, k) <= top[i][2]

\* C8 as stated: the top products are at most 10, the largest sums, and each
\* entry is strictly greater than the next.
C8_StrictlyDescending ==
    figures # NULL =>
        LET top == Val(figures).tables.top_prod
        IN /\ TopIsTheLargest(top, Val(figures).filtered_df)
           /\ \A i \in 1..(Len(top) - 1) : top[i][2] > top[i + 1][2]

\* C8 as amended: the top products are at most 10, the largest sums, and no
\* entry is smaller than the next (equal sums stay next to each other).
C8_Descending ==
    figures # NULL =>
        LET top == Val(figures).tables.top_prod
        IN /\ TopIsTheLargest(top, Val(figures).filtered_df)
           /\ \A i \in 1..(Len(top) - 1) : top[i][2] >= top[i + 1][2]

\* more than 10 products were ranked, and two kept entries are equal
C8_Witness ==
    /\ figures # NULL
    /\ Cardinality(Descriptions(Val(figures).filtered_df)) > 10
    /\ Len(Val(figures).tables.top_prod) = 10
    /\ \E i \in 1..9 : Val(figures).tables.top_prod[i][2] = Val(figures).tables.top_prod[i + 1][2]
    /\ \E i \in 1..9 : Val(figures).tables.top_prod[i][2] > Val(figures).tables.top_prod[i + 1][2]

Scored == {c \in DOMAIN rfm : NotNull(rfm[c].R)}

\* C9: in a computed RFM table, a customer with no more recency days than
\* another has no lower R_Score, and the customer with the fewest recency
\* days has the highest R_Score of the table.
C9_RecencyIsInverted ==
    phase = "ready" =>
        /\ \A c \in Scored : NotNull(rfm[c].R_Score)
        /\ \A a, b \in Scored :
               Val(rfm[a].R) <= Val(rfm[b].R) => Val(rfm[a].R_Score) >= Val(rfm[b].R_Score)
        /\ \A a \in Scored :
               (\A b \in Scored : Val(rfm[a].R) <= Val(rfm[b].R)) =>
                   (\A b \in Scored : Val(rfm[a].R_Score) >= Val(rfm[b].R_Score))

\* a table of customers with equal and with different recency days
C9_Witness ==
    /\ phase = "ready"
    /\ \E a, b \in Scored : a # b /\ rfm[a].R = rfm[b].R
    /\ \E a, b \in Scored : Val(rfm[a].R) < Val(rfm[b].R)
                              /\ Val(rfm[a].R_Score) > Val(rfm[b].R_Score)

\* customers share recency or monetary values, so that the metric has fewer
\* than 5 distinct bin edges
Degenerate(d) ==
    /\ AllDated(d)
    /\ Cardinality(CustomerIDs(d)) >= 2
    /\ \/ NumBins(SortedValues(R_col(d)), Quartiles) < Quartiles + 1
       \/ NumBins(SortedValues(M_col(d)), Quartiles) < Quartiles + 1

\* C10: when recency or monetary has so many equal values that the bin
\* edges are fewer, scoring still completes and every customer has a score
\* for each metric and a segment.
C10_DegenerateStillScores ==
    (phase \in {"ready", "crashed"} /\ Degenerate(df)) =>
        /\ phase = "ready"
        /\ \A c \in DOMAIN rfm : NotNull(rfm[c].M_Score) /\ rfm[c].Segment # ""

====
